---------------------------- MODULE Spec2Model ----------------------------
(***************************************************************************)
(* Model of P4.py: a passband link simulation (image -> bits -> BPSK or    *)
(* 16-QAM waveform -> AWGN channel -> energy-detection demodulator ->      *)
(* image and bit-error rate).                                              *)
(*                                                                         *)
(* Numbers.  Waveform samples are floats in the program.  Here a sample is *)
(* an integer count of 1/Scale.  A float sine or cosine taken at a nominal *)
(* zero of the function other than the argument 0.0 (sin near pi or 2 pi,  *)
(* cos near pi/2 or 3 pi/2) is never 0.0 in the program: the argument is   *)
(* a rounded product 2*pi*fc*t and the result is a residue of about 1e-16  *)
(* whose sign depends on fc and on the rounding.  The model keeps such a   *)
(* sample as the smallest non-zero amount, +1 or -1, chosen by `redondeo'. *)
(* Sequences are 1-based: Python's sample j is element j+1.                *)
(***************************************************************************)
EXTENDS Integers, Sequences, FiniteSets, TLC

VARIABLES
    pc,                \* position of the run
    err,               \* exception that ended the run ("" while none)
    dims,              \* shape of the image, <<x, y, z>>
    pixeles,           \* flattened pixel values of the image
    bits,              \* bit sequence handed to the modulator / evaluator (bits_TX)
    mpp,               \* samples per carrier period
    redondeo,          \* signs of the float residues of the carrier
    portadora,         \* carrier returned by the modulator
    senal_Tx,          \* transmit waveform
    Pm,                \* average power returned by the modulator, [num, den]
    moduladora,        \* indicator waveform
    senal_Rx,          \* waveform leaving the channel
    bits_Rx,           \* bits recovered by the demodulator (bits_RX)
    senal_demodulada,  \* per-sample product signal
    pixeles_Rx,        \* pixel values rebuilt by bits_a_rgb
    errores,           \* error count of the evaluator
    BER,               \* bit error rate, [num, den]
    i,                 \* loop index of modulador_16QAM (a bit index)
    IQ,                \* amplitudes written for the last 16-QAM symbol
    ligados,           \* names bound in the script's namespace
    linea              \* index of the next script statement

vars == <<pc, err, dims, pixeles, bits, mpp, redondeo, portadora, senal_Tx, Pm,
          moduladora, senal_Rx, bits_Rx, senal_demodulada, pixeles_Rx,
          errores, BER, i, IQ, ligados, linea>>

----------------------------------------------------------------------------
(* Bounds of the model *)

MaxBits == 2       \* longest bit sequence given to the BPSK chain
MaxMpp == 4        \* largest samples-per-period
Scale == 10        \* sample resolution: amplitude 1.0 is Scale
MaxRuido == 2      \* most samples one channel pass disturbs

Bit == {0, 1}

BitSeqs(n) == UNION {[1..k -> Bit] : k \in 0..n}

RECURSIVE Suma(_)
Suma(s) == IF s = <<>> THEN 0 ELSE Head(s) + Suma(Tail(s))

Abs(x) == IF x < 0 THEN -x ELSE x

Max(a, b) == IF a > b THEN a ELSE b

\* Python's s[a:b] on a sequence of length Len(s): indices clipped to the length
Slice(s, a, b) ==
    LET lo == IF a > Len(s) THEN Len(s) ELSE a
        hi == IF b > Len(s) THEN Len(s) ELSE b
    IN  IF hi <= lo THEN <<>> ELSE [k \in 1..(hi - lo) |-> s[lo + k]]

----------------------------------------------------------------------------
(* Carrier generation *)

\* Scale * sin(pi * a / n) for 0 < a < n (Bhaskara's rational approximation,
\* rounded to the nearest unit; a float sine of a non-zero argument is non-zero)
SinQ(a, n) ==
    LET p == a * (n - a)
        d == 5 * n * n - 4 * p
    IN  Max(1, (2 * Scale * 16 * p + d) \div (2 * d))

\* np.sin(2*pi*fc*t) at t = (num/den) * Tc, 0 <= num <= den
SinTurn(num, den, rnd) ==
    IF num = 0 THEN 0
    ELSE IF 2 * num = den THEN rnd[1]
    ELSE IF num = den THEN rnd[2]
    ELSE IF 2 * num < den THEN SinQ(2 * num, den)
    ELSE -SinQ(2 * num - den, den)

\* np.cos(2*pi*fc*t) at t = (num/den) * Tc, 0 <= num <= den
CosTurn(num, den, rnd) ==
    IF num = 0 \/ num = den THEN Scale
    ELSE IF 4 * num = den THEN rnd[1]
    ELSE IF 4 * num = 3 * den THEN rnd[2]
    ELSE IF 2 * num = den THEN -Scale
    ELSE IF 4 * num < den THEN SinQ(4 * num + den, 2 * den)
    ELSE IF 4 * num < 3 * den THEN -SinQ(4 * num - den, 2 * den)
    ELSE SinQ(4 * num - 3 * den, 2 * den)

\* np.linspace(0, Tc, m): sample j of m is at (j/(m-1)) * Tc; one sample is at 0
PhaseNum(j, m) == IF m <= 1 THEN 0 ELSE j

PhaseDen(j, m) == IF m <= 1 THEN 1 ELSE m - 1

PortadoraSen(m, rnd) ==
    [k \in 1..m |-> SinTurn(PhaseNum(k - 1, m), PhaseDen(k - 1, m), rnd)]

PortadoraCos(m, rnd) ==
    [k \in 1..m |-> CosTurn(PhaseNum(k - 1, m), PhaseDen(k - 1, m), rnd)]

----------------------------------------------------------------------------
(* modulador: BPSK, P4.py lines 46-83 *)

\* a modulator that forgets the sign flip of line 77
OndaBPSK_SinSigno(bit, p) == p

\* lines 72-78: the carrier for a 1, the carrier times -1 for any other bit
OndaBPSK(bit, p) == IF bit = 1 THEN p ELSE [k \in 1..Len(p) |-> p[k] * (-1)]

\* lines 67-78: block [i*mpp, (i+1)*mpp) of senal_Tx holds the waveform of bit i
ModularBPSK(b, p, m) ==
    [k \in 1..(Len(b) * m) |-> OndaBPSK(b[((k - 1) \div m) + 1], p)[((k - 1) % m) + 1]]

\* lines 69, 75, 78: the bit value repeated over its block
ModuladoraBPSK(b, m) ==
    [k \in 1..(Len(b) * m) |-> IF b[((k - 1) \div m) + 1] = 1 THEN 1 ELSE 0]

\* line 81: (1/(N*Tc)) * np.trapz(s^2, t) over M evenly spaced instants of
\* [0, N*Tc] is sum(s[k]^2 + s[k+1]^2) / (2*(M-1)), in units of 1/Scale^2
Potencia(s) ==
    IF Len(s) <= 1 THEN [num |-> 0, den |-> 1]
    ELSE [num |-> Suma([k \in 1..(Len(s) - 1) |-> s[k] * s[k] + s[k + 1] * s[k + 1]]),
          den |-> 2 * (Len(s) - 1)]

\* lines 72-78: what modulador leaves in the array `bits' it was handed: the
\* loop only reads it through enumerate; the slices it assigns are of
\* senal_Tx and moduladora, both allocated at lines 68-69
BitsTrasModulador(b) == b

\* the exception modulador raises, "" when it returns
ErrorModulador(b, m) ==
    IF m < 0 THEN "ValueError"                 \* line 63: np.linspace(0, Tc, mpp)
    ELSE IF Len(b) = 0 THEN "ZeroDivisionError" \* line 81: 1 / (N*Tc)
    ELSE ""

Modulador ==
    /\ pc = "inicio"
    /\ err' = ErrorModulador(bits, mpp)
    /\ IF ErrorModulador(bits, mpp) = ""
       THEN /\ portadora' = PortadoraSen(mpp, redondeo)
            /\ senal_Tx' = ModularBPSK(bits, PortadoraSen(mpp, redondeo), mpp)
            /\ Pm' = Potencia(ModularBPSK(bits, PortadoraSen(mpp, redondeo), mpp))
            /\ moduladora' = ModuladoraBPSK(bits, mpp)
            /\ bits' = BitsTrasModulador(bits)
            /\ pc' = "modulado"
       ELSE /\ pc' = "error"
            /\ UNCHANGED <<portadora, senal_Tx, Pm, moduladora, bits>>
    /\ UNCHANGED <<dims, pixeles, mpp, redondeo, senal_Rx, bits_Rx,
                   senal_demodulada, pixeles_Rx, errores, BER, i, IQ, ligados, linea>>

----------------------------------------------------------------------------
(* canal_ruidoso: P4.py lines 85-107 *)

\* line 99, 102: the noise has standard deviation sqrt(Pm / 10^(SNR/10)); the
\* SNR fixes its size for the whole pass, here one of two sizes
RuidoAmps == {1, 2 * Scale}

\* line 102: the noise vectors one pass may draw: all zero when the power is
\* zero (sqrt(0) = 0), else at most MaxRuido samples of size amp, either sign
Ruidos(M, P) ==
    IF P.num = 0 THEN {[k \in 1..M |-> 0]}
    ELSE UNION { UNION { { [k \in 1..M |-> IF k \in S THEN sg[k] * amp ELSE 0]
                           : sg \in [S -> {-1, 1}] }
                         : S \in {T \in SUBSET (1..M) : Cardinality(T) <= MaxRuido} }
                 : amp \in RuidoAmps }

\* line 105: senal_Rx = senal_Tx + ruido
SumaRuido(s, ruido) == [k \in 1..Len(s) |-> s[k] + ruido[k]]

\* a channel that adds the noise in place, senal_Tx += ruido
TxTrasCanal_EnSitio(s, ruido) == SumaRuido(s, ruido)

\* line 105: what canal_ruidoso leaves in the array senal_Tx it was handed:
\* senal_Tx + ruido builds a new array, bound to senal_Rx
TxTrasCanal(s, ruido) == s

CanalRuidoso ==
    /\ pc = "modulado"
    /\ \E ruido \in Ruidos(Len(senal_Tx), Pm) :
          /\ senal_Rx' = SumaRuido(senal_Tx, ruido)
          /\ senal_Tx' = TxTrasCanal(senal_Tx, ruido)
    /\ pc' = "recibido"
    /\ UNCHANGED <<err, dims, pixeles, bits, mpp, redondeo, portadora, Pm,
                   moduladora, bits_Rx, senal_demodulada, pixeles_Rx, errores,
                   BER, i, IQ, ligados, linea>>

----------------------------------------------------------------------------
(* demodulador: BPSK energy detection, P4.py lines 109-148 *)

\* line 138: senal_Rx[i*mpp : (i+1)*mpp] * portadora
Producto(rx, p, m, n) ==
    LET seg == Slice(rx, n * m, (n + 1) * m)
    IN  [k \in 1..Len(seg) |-> seg[k] * p[k]]

\* line 139: Ep = np.sum(producto)
Energia(rx, p, m, n) == Suma(Producto(rx, p, m, n))

\* a decision that gives the tie Ep = 0 to bit 1
Decision_Empate(Ep) == IF Ep >= 0 THEN 1 ELSE 0

\* lines 143-146
Decision(Ep) == IF Ep > 0 THEN 1 ELSE 0

\* lines 121-146, N = int(M / mpp)
Demodular(rx, p, m) ==
    [n \in 1..(Len(rx) \div m) |-> Decision(Energia(rx, p, m, n - 1))]

\* lines 130, 140
SenalDemodulada(rx, p, m) ==
    [k \in 1..Len(rx) |->
        IF (k - 1) \div m < Len(rx) \div m
        THEN Producto(rx, p, m, (k - 1) \div m)[((k - 1) % m) + 1]
        ELSE 0]

\* lines 138-140: what demodulador leaves in the array senal_Rx it was
\* handed: the slice is only read, its product with the carrier is a new
\* array, and the slices assigned are of senal_demodulada (line 130)
RxTrasDemodulador(rx, p, m) == rx

\* lines 133, 138: what demodulador leaves in the carrier it was handed: both
\* products build new arrays
PortadoraTrasDemodulador(rx, p, m) == p

Demodulador ==
    /\ pc = "recibido"
    /\ IF mpp = 0
       THEN /\ pc' = "error"                     \* line 124: M / mpp
            /\ err' = "ZeroDivisionError"
            /\ UNCHANGED <<bits_Rx, senal_demodulada, senal_Rx, portadora>>
       ELSE /\ bits_Rx' = Demodular(senal_Rx, portadora, mpp)
            /\ senal_demodulada' = SenalDemodulada(senal_Rx, portadora, mpp)
            /\ senal_Rx' = RxTrasDemodulador(senal_Rx, portadora, mpp)
            /\ portadora' = PortadoraTrasDemodulador(senal_Rx, portadora, mpp)
            /\ pc' = "demodulado"
            /\ err' = err
    /\ UNCHANGED <<dims, pixeles, bits, mpp, redondeo, senal_Tx, Pm,
                   moduladora, pixeles_Rx, errores, BER, i, IQ,
                   ligados, linea>>

----------------------------------------------------------------------------
(* The BPSK chain: modulador, canal_ruidoso, demodulador *)

Signos == {<<1, 1>>, <<1, -1>>, <<-1, 1>>, <<-1, -1>>}

NoUsado ==
    /\ err = ""
    /\ portadora = <<>> /\ senal_Tx = <<>> /\ Pm = [num |-> 0, den |-> 1]
    /\ moduladora = <<>> /\ senal_Rx = <<>> /\ bits_Rx = <<>>
    /\ senal_demodulada = <<>> /\ pixeles_Rx = <<>>
    /\ errores = 0 /\ BER = [num |-> 0, den |-> 1]
    /\ i = 0 /\ IQ = <<0, 0>> /\ ligados = {} /\ linea = 0

InitBPSK ==
    /\ pc = "inicio"
    /\ bits \in BitSeqs(MaxBits)
    /\ mpp \in (-1)..MaxMpp
    /\ redondeo \in Signos
    /\ dims = <<0, 0, 0>> /\ pixeles = <<>>
    /\ NoUsado

NextBPSK == Modulador \/ CanalRuidoso \/ Demodulador

SpecBPSK == InitBPSK /\ [][NextBPSK]_vars

----------------------------------------------------------------------------
(* modulador_16QAM: P4.py lines 175-363 *)

MaxBits16 == 5     \* longest bit sequence given to modulador_16QAM

\* lines 210-336: the fifteen tests of the if/elif chain, in order.  Test k
\* compares bits[i], bits[i+1], bits[i+2] and then bits[i+2] AGAIN with the
\* four digits of k-1; bits[i+3] is never read.
Pruebas ==
    << <<0, 0, 0, 0>>, <<0, 0, 0, 1>>, <<0, 0, 1, 0>>, <<0, 0, 1, 1>>,
       <<0, 1, 0, 0>>, <<0, 1, 0, 1>>, <<0, 1, 1, 0>>, <<0, 1, 1, 1>>,
       <<1, 0, 0, 0>>, <<1, 0, 0, 1>>, <<1, 0, 1, 0>>, <<1, 0, 1, 1>>,
       <<1, 1, 0, 0>>, <<1, 1, 0, 1>>, <<1, 1, 1, 0>> >>

\* whether test k holds of the symbol that starts at bit index i (0-based)
Cumple(b, i0, k) ==
    /\ b[i0 + 1] = Pruebas[k][1]
    /\ b[i0 + 2] = Pruebas[k][2]
    /\ b[i0 + 3] = Pruebas[k][3]
    /\ b[i0 + 3] = Pruebas[k][4]

\* the branch the chain takes: the first test that holds, else the 16th (line 345)
Rama(b, i0) ==
    IF \E k \in 1..15 : Cumple(b, i0, k)
    THEN CHOOSE k \in 1..15 : Cumple(b, i0, k) /\ \A j \in 1..(k - 1) : ~Cumple(b, i0, j)
    ELSE 16

\* lines 211-349: the factors of portadora_cos and portadora_sen in each branch
Amplitudes ==
    << <<-3, 3>>, <<-3, 1>>, <<-3, -3>>, <<-3, -1>>,
       <<-1, 3>>, <<-1, 1>>, <<-1, -3>>, <<-1, -1>>,
       <<3, 3>>, <<3, 1>>, <<3, -3>>, <<3, -1>>,
       <<1, 3>>, <<1, 1>>, <<1, -3>>, <<1, -1>> >>

\* the (I, Q) pair the modulator applies to the symbol at bit index i
Mapeo16QAM(b, i0) == Amplitudes[Rama(b, i0)]

\* the four slice assignments of a branch (e.g. lines 211-214): periods i and
\* i+1 take I * portadora_cos, periods i+2 and i+3 take Q * portadora_sen; a
\* slice is clipped to the buffer
Bloque16(s, i0, m, iq, pcos, psen, hasta) ==
    [k \in 1..Len(s) |->
        IF k > i0 * m /\ k <= (i0 + hasta) * m
        THEN IF (k - 1) \div m < i0 + 2
             THEN pcos[((k - 1) % m) + 1] * iq[1]
             ELSE psen[((k - 1) % m) + 1] * iq[2]
        ELSE s[k]]

\* lines 186-205: carriers and the zeroed buffer of N*mpp samples
Preparar16 ==
    /\ pc = "inicio"
    /\ IF mpp < 0
       THEN /\ pc' = "error"                    \* line 191: np.linspace(0, Tc, mpp)
            /\ err' = "ValueError"
            /\ UNCHANGED senal_Tx
       ELSE /\ pc' = "bucle"
            /\ err' = err
            /\ senal_Tx' = [k \in 1..(Len(bits) * mpp) |-> 0]
    /\ i' = 0
    /\ UNCHANGED <<dims, pixeles, bits, mpp, redondeo, portadora, Pm, moduladora,
                   senal_Rx, bits_Rx, senal_demodulada, pixeles_Rx, errores, BER,
                   IQ, ligados, linea>>

\* lines 209-353, one pass of the loop body for the symbol at bit index i.
\* The tests read bits[i+1] and bits[i+2] (IndexError past the end); the
\* branch writes its four periods of senal_Tx (ValueError when a period falls
\* outside the buffer: a carrier of mpp >= 2 samples does not broadcast into
\* an empty slice, one of a single sample does); then it indexes `moduladora', a name the function never binds (NameError).
Iterar16 ==
    /\ pc = "bucle"
    /\ i < Len(bits)
    /\ pc' = "error"
    /\ IF Len(bits) - i < 3
       THEN /\ err' = "IndexError"
            /\ UNCHANGED <<senal_Tx, IQ>>
       ELSE /\ IQ' = Mapeo16QAM(bits, i)
            /\ IF Len(bits) - i = 3 /\ mpp > 1
               THEN /\ err' = "ValueError"
                    /\ senal_Tx' = Bloque16(senal_Tx, i, mpp, Mapeo16QAM(bits, i),
                                            PortadoraCos(mpp, redondeo),
                                            PortadoraSen(mpp, redondeo), 3)
               ELSE /\ err' = "NameError"
                    /\ senal_Tx' = Bloque16(senal_Tx, i, mpp, Mapeo16QAM(bits, i),
                                            PortadoraCos(mpp, redondeo),
                                            PortadoraSen(mpp, redondeo), 4)
    /\ UNCHANGED <<dims, pixeles, bits, mpp, redondeo, portadora, Pm, moduladora,
                   senal_Rx, bits_Rx, senal_demodulada, pixeles_Rx, errores, BER,
                   i, ligados, linea>>

\* lines 354-363, after the loop: the power, the combined carrier, the return.
\* `moduladora' is read again by the return statement.
Terminar16 ==
    /\ pc = "bucle"
    /\ i >= Len(bits)
    /\ pc' = "error"
    /\ err' = IF Len(bits) = 0 THEN "ZeroDivisionError"   \* line 355: 1 / (N*Tc)
              ELSE "NameError"                            \* line 363
    /\ UNCHANGED <<dims, pixeles, bits, mpp, redondeo, portadora, senal_Tx, Pm,
                   moduladora, senal_Rx, bits_Rx, senal_demodulada, pixeles_Rx,
                   errores, BER, i, IQ, ligados, linea>>

Init16QAM ==
    /\ pc = "inicio"
    /\ bits \in BitSeqs(MaxBits16)
    /\ mpp \in (-1)..MaxMpp
    /\ redondeo \in Signos
    /\ dims = <<0, 0, 0>> /\ pixeles = <<>>
    /\ NoUsado

Next16QAM == Preparar16 \/ Iterar16 \/ Terminar16

Spec16QAM == Init16QAM /\ [][Next16QAM]_vars

----------------------------------------------------------------------------
(* rgb_a_bit and bits_a_rgb: P4.py lines 23-44 and 150-168 *)

MaxLado == 1       \* largest height and width of the image
MaxPaso == 2       \* largest step between neighbouring pixel values

\* the digits of v in base 2, most significant first, no leading zeros
RECURSIVE Binario(_)
Binario(v) == IF v < 2 THEN <<v>> ELSE Binario(v \div 2) \o <<v % 2>>

\* a format without the zero padding, format(pixel, 'b')
Formato08b_SinRelleno(v) == Binario(v)

\* line 41: format(pixel, '08b'): the base-2 digits, zero-padded on the left
\* to a width of at least 8
Formato08b(v) ==
    LET d == Binario(v)
    IN  IF Len(d) >= 8 THEN d ELSE [k \in 1..(8 - Len(d)) |-> 0] \o d

RECURSIVE Unir(_)
Unir(ss) == IF ss = <<>> THEN <<>> ELSE Head(ss) \o Unir(Tail(ss))

\* lines 32-44: flatten, format every value, join the digit strings
RgbABit(px) == Unir([k \in 1..Len(px) |-> Formato08b(px[k])])

\* line 165: int(''.join(map(str, canal)), 2)
RECURSIVE DeBinario(_)
DeBinario(d) ==
    IF d = <<>> THEN 0 ELSE 2 * DeBinario(SubSeq(d, 1, Len(d) - 1)) + d[Len(d)]

\* lines 159-168, for N a positive multiple of 8: np.split into N/8 equal
\* groups, each group read as a base-2 number, cast to uint8
BitsARgb(b) ==
    [k \in 1..(Len(b) \div 8) |-> DeBinario(SubSeq(b, 8 * (k - 1) + 1, 8 * k)) % 256]

\* an image: a shape (x, y, 3) and x*y*3 values of 0..255 that step by a
\* fixed amount from a base value, wrapping at 256
Imagenes ==
    { [d |-> <<x, y, 3>>,
       p |-> [k \in 1..(x * y * 3) |-> (base + (k - 1) * paso) % 256]]
      : x \in 1..MaxLado, y \in 1..MaxLado, base \in 0..255, paso \in 0..MaxPaso }

Codificar ==
    /\ pc = "inicio"
    /\ bits' = RgbABit(pixeles)
    /\ pc' = "codificado"
    /\ UNCHANGED <<err, dims, pixeles, mpp, redondeo, portadora, senal_Tx, Pm,
                   moduladora, senal_Rx, bits_Rx, senal_demodulada, pixeles_Rx,
                   errores, BER, i, IQ, ligados, linea>>

Decodificar ==
    /\ pc = "codificado"
    /\ IF Len(bits) = 0
       THEN /\ pc' = "error"                    \* line 162: np.split(bits_Rx, 0.0)
            /\ err' = "ZeroDivisionError"
            /\ UNCHANGED pixeles_Rx
       ELSE /\ pixeles_Rx' = BitsARgb(bits)
            /\ pc' = "reconstruido"
            /\ err' = err
    /\ UNCHANGED <<dims, pixeles, bits, mpp, redondeo, portadora, senal_Tx, Pm,
                   moduladora, senal_Rx, bits_Rx, senal_demodulada, errores, BER,
                   i, IQ, ligados, linea>>

InitCodec ==
    /\ pc = "inicio"
    /\ \E img \in Imagenes : dims = img.d /\ pixeles = img.p
    /\ bits = <<>> /\ mpp = 0 /\ redondeo = <<1, 1>>
    /\ NoUsado

NextCodec == Codificar \/ Decodificar

SpecCodec == InitCodec /\ [][NextCodec]_vars

----------------------------------------------------------------------------
(* The bit-error evaluation: P4.py lines 451-454 *)

MaxLargo == 3      \* longest pair of sequences given to the evaluation

\* a count that forgets the absolute value
Errores_SinAbs(tx, rx) == Suma([k \in 1..Len(tx) |-> tx[k] - rx[k]])

\* line 452: sum(abs(bits_TX - bits_RX))
Errores(tx, rx) == Suma([k \in 1..Len(tx) |-> Abs(tx[k] - rx[k])])

\* lines 452-453: the count, then BER = count / len(bits_TX)
Evaluar ==
    /\ pc = "inicio"
    /\ errores' = Errores(bits, bits_Rx)
    /\ IF Len(bits) = 0
       THEN /\ pc' = "error"                    \* line 453: 0 / 0
            /\ err' = "ZeroDivisionError"
            /\ BER' = BER
       ELSE /\ BER' = [num |-> Errores(bits, bits_Rx), den |-> Len(bits)]
            /\ pc' = "evaluado"
            /\ err' = err
    /\ UNCHANGED <<dims, pixeles, bits, mpp, redondeo, portadora, senal_Tx, Pm,
                   moduladora, senal_Rx, bits_Rx, senal_demodulada, pixeles_Rx,
                   i, IQ, ligados, linea>>

InitBER ==
    /\ pc = "inicio"
    /\ \E n \in 0..MaxLargo : bits \in [1..n -> Bit] /\ bits_Rx \in [1..n -> Bit]
    /\ err = "" /\ dims = <<0, 0, 0>> /\ pixeles = <<>> /\ mpp = 0
    /\ redondeo = <<1, 1>>
    /\ portadora = <<>> /\ senal_Tx = <<>> /\ Pm = [num |-> 0, den |-> 1]
    /\ moduladora = <<>> /\ senal_Rx = <<>>
    /\ senal_demodulada = <<>> /\ pixeles_Rx = <<>>
    /\ errores = 0 /\ BER = [num |-> 0, den |-> 1]
    /\ i = 0 /\ IQ = <<0, 0>> /\ ligados = {} /\ linea = 0

NextBER == Evaluar

SpecBER == InitBER /\ [][NextBER]_vars

----------------------------------------------------------------------------
(* The simulation script: P4.py lines 408-454, as names read and bound *)

\* names bound when line 414 is reached: the imports of lines 1-4 and 410-411
\* and the functions defined at lines 8-404
Globales ==
    {"Image", "np", "stats", "plt", "time", "fuente_info", "rgb_a_bit",
     "modulador", "canal_ruidoso", "demodulador", "bits_a_rgb",
     "modulador_16QAM", "demodulador_16QAM"}

\* names every scope finds in the builtins
Builtins == {"print", "sum", "abs", "len", "int", "format", "list", "map",
             "str", "pow", "range", "enumerate"}

\* for each function, the names its body reads that are neither its
\* parameters nor bound in the body before the read: they are looked up in
\* the script's namespace when the body runs
Libres ==
    [f \in {"fuente_info", "rgb_a_bit", "modulador", "canal_ruidoso", "demodulador",
            "bits_a_rgb", "modulador_16QAM", "demodulador_16QAM"} |->
        CASE f = "fuente_info" -> {"Image", "np"}                \* lines 18-20
          [] f = "rgb_a_bit" -> {"np", "format", "list"}         \* lines 32-44
          [] f = "modulador" -> {"np", "len", "enumerate", "pow"}     \* lines 59-83
          [] f = "canal_ruidoso" -> {"np", "pow"}                \* lines 99-107
          [] f = "demodulador" -> {"np", "len", "int", "range"}  \* lines 121-148
          [] f = "bits_a_rgb" -> {"np", "len", "int", "map", "str"}   \* lines 159-168
          [] f = "modulador_16QAM" ->                            \* lines 186-363
                {"np", "len", "int", "print", "range", "pow", "moduladora"}
          [] f = "demodulador_16QAM" ->                          \* lines 378-404
                {"np", "len", "int", "range", "N"}]

\* the statements of lines 414-454 in order: the names the statement reads,
\* the function it calls ("" for none) and the names it binds
Programa ==
    << [lee |-> {}, llama |-> "", liga |-> {"fc"}],                       \* 414
       [lee |-> {}, llama |-> "", liga |-> {"mpp"}],                      \* 415
       [lee |-> {}, llama |-> "", liga |-> {"SNR"}],                      \* 416
       [lee |-> {"time"}, llama |-> "", liga |-> {"inicio"}],             \* 419
       [lee |-> {}, llama |-> "fuente_info", liga |-> {"imagen_TX"}],     \* 422
       [lee |-> {"imagen_TX"}, llama |-> "", liga |-> {"dimensiones_16QAM"}],  \* 423
       [lee |-> {"imagen_TX"}, llama |-> "rgb_a_bit", liga |-> {"bits_TX"}],   \* 426
       [lee |-> {"bits_TX", "fc", "mpp"}, llama |-> "modulador_16QAM",    \* 430
        liga |-> {"senal_TX", "Pm_senal_TX", "portadora_16QAM", "moduladora_16QAM"}],
       [lee |-> {"senal_TX", "Pm_16QAM", "SNR"}, llama |-> "canal_ruidoso",    \* 437
        liga |-> {"senal_RX"}],
       [lee |-> {"portadora_cos", "portadora_sen"}, llama |-> "",         \* 441
        liga |-> {"portadora_16QAM"}],
       [lee |-> {"senal_RX", "portadora_16QAM", "mpp"}, llama |-> "demodulador",  \* 442
        liga |-> {"bits_RX", "senal_demodulada_16QAM"}],
       [lee |-> {"bits_RX", "dimensiones_16QAM"}, llama |-> "bits_a_rgb", \* 445
        liga |-> {"imagen_RX"}],
       [lee |-> {"plt"}, llama |-> "", liga |-> {"Fig"}],                 \* 446
       [lee |-> {"print", "time", "inicio"}, llama |-> "", liga |-> {}],  \* 449
       [lee |-> {"sum", "abs", "bits_TX", "bits_RX"}, llama |-> "",       \* 452
        liga |-> {"errores_16QAM"}],
       [lee |-> {"errores_16QAM", "len", "bits_TX"}, llama |-> "",        \* 453
        liga |-> {"BER_16QAM"}],
       [lee |-> {"print", "errores_16QAM", "BER_16QAM"}, llama |-> "", liga |-> {}] >>  \* 454

\* every name the statement needs bound: its own reads, the function it
\* calls, and the free names of that function's body
Necesita(st) ==
    st.lee \cup (IF st.llama = "" THEN {} ELSE {st.llama} \cup Libres[st.llama])

\* whether every name the statement needs is bound in the namespace
Resuelve(st, ns) == Necesita(st) \subseteq (ns \cup Builtins)

\* line 415
MppScript == 20

\* one statement of the script: a NameError if a name it needs is unbound,
\* else its bindings; line 415 sets mpp and line 426 computes the bits
Sentencia ==
    /\ pc = "script"
    /\ linea <= Len(Programa)
    /\ IF Resuelve(Programa[linea], ligados)
       THEN /\ ligados' = ligados \cup Programa[linea].liga
            /\ linea' = linea + 1
            /\ pc' = IF linea = Len(Programa) THEN "reportado" ELSE "script"
            /\ err' = err
            /\ mpp' = IF linea = 2 THEN MppScript ELSE mpp
            /\ bits' = IF linea = 7 THEN RgbABit(pixeles) ELSE bits
       ELSE /\ pc' = "error"
            /\ err' = "NameError"
            /\ UNCHANGED <<ligados, linea, mpp, bits>>
    /\ UNCHANGED <<dims, pixeles, redondeo, portadora, senal_Tx, Pm, moduladora,
                   senal_Rx, bits_Rx, senal_demodulada, pixeles_Rx, errores, BER,
                   i, IQ>>

InitScript ==
    /\ pc = "script"
    /\ \E img \in Imagenes : dims = img.d /\ pixeles = img.p
    /\ bits = <<>> /\ mpp = 0 /\ redondeo = <<1, 1>>
    /\ err = ""
    /\ portadora = <<>> /\ senal_Tx = <<>> /\ Pm = [num |-> 0, den |-> 1]
    /\ moduladora = <<>> /\ senal_Rx = <<>> /\ bits_Rx = <<>>
    /\ senal_demodulada = <<>> /\ pixeles_Rx = <<>>
    /\ errores = 0 /\ BER = [num |-> 0, den |-> 1]
    /\ i = 0 /\ IQ = <<0, 0>>
    /\ ligados = Globales /\ linea = 1

NextScript == Sentencia

SpecScript == InitScript /\ [][NextScript]_vars

----------------------------------------------------------------------------
(* Claims on the BPSK chain, checked under SpecBPSK *)

\* C1: for a non-empty bit sequence and mpp >= 2, modulador, then a channel
\* pass that adds no noise (received waveform equal to the transmit waveform),
\* then demodulador with the carrier modulador returned, gives back the
\* original bits: same length, same bit at every position.
C1_IdaYVueltaBPSK ==
    (pc = "demodulado" /\ senal_Rx = senal_Tx /\ Len(bits) >= 1 /\ mpp >= 2)
        => (Len(bits_Rx) = Len(bits) /\ \A n \in 1..Len(bits) : bits_Rx[n] = bits[n])

C1_Testigo ==
    /\ pc = "demodulado" /\ senal_Rx = senal_Tx /\ mpp >= 2
    /\ Len(bits) >= 2 /\ bits[1] = 1 /\ bits[2] = 0
    /\ bits_Rx = bits

\* C6: modulador fails whenever the bit sequence is empty or mpp < 2, and
\* returns a waveform only when N >= 1 and mpp >= 2.
C6_ModuladorRechaza ==
    (Len(bits) = 0 \/ mpp < 2) => pc \notin {"modulado", "recibido", "demodulado"}

\* the inner product of interval n with the carrier, summed sample by sample
RECURSIVE SumaProductos(_, _, _, _)
SumaProductos(rx, p, base, j) ==
    IF j = 0 THEN 0 ELSE rx[base + j] * p[j] + SumaProductos(rx, p, base, j - 1)

\* C9: for any received waveform of length N*mpp, demodulador returns exactly
\* N bits, each 0 or 1, and bit n is 1 if and only if the inner product of
\* samples [n*mpp, (n+1)*mpp) with the carrier is > 0 (the tie 0 decides 0).
C9_DecisionPorEnergia ==
    pc = "demodulado" =>
        /\ Len(senal_Rx) = Len(bits) * mpp
        /\ Len(bits_Rx) = Len(bits)
        /\ \A n \in 1..Len(bits_Rx) :
              /\ bits_Rx[n] \in {0, 1}
              /\ bits_Rx[n] = 1 <=>
                    SumaProductos(senal_Rx, portadora, (n - 1) * mpp, mpp) > 0

C9_Testigo ==
    /\ pc = "demodulado" /\ senal_Rx # senal_Tx
    /\ \E n \in 1..Len(bits_Rx) :
          /\ SumaProductos(senal_Rx, portadora, (n - 1) * mpp, mpp) = 0
          /\ bits[n] = 1 /\ bits_Rx[n] = 0

----------------------------------------------------------------------------
(* Claims on modulador_16QAM, checked under Spec16QAM *)

Patrones == [1..4 -> Bit]

\* the loop body has mapped and written the whole symbol at bit index i
SimboloEscrito ==
    pc = "error" /\ err = "NameError" /\ Len(bits) - i >= 4 /\ mpp >= 2

\* C2: the constellation mapping of modulador_16QAM is a bijection: the 16
\* four-bit patterns give 16 pairwise distinct (I,Q) pairs, so the pattern of
\* the symbol just mapped is the only one that gives its pair.
C2_MapeoBiyectivo ==
    SimboloEscrito =>
        /\ Cardinality({Mapeo16QAM(q, 0) : q \in Patrones}) = 16
        /\ \A q \in Patrones :
              Mapeo16QAM(q, 0) = IQ => \A k \in 1..4 : q[k] = bits[i + k]

\* C3: for a bit sequence of a length that is a positive multiple of 4, with
\* mpp >= 2, modulador_16QAM, a noiseless channel pass and demodulador_16QAM
\* give back the original bits: the chain does not fail, and what it returns
\* is the input.
C3_IdaYVuelta16QAM ==
    (Len(bits) >= 1 /\ Len(bits) % 4 = 0 /\ mpp >= 2) =>
        /\ pc # "error"
        /\ pc = "demodulado" => bits_Rx = bits

\* C4: symbol k occupies samples [4k*mpp, (4k+4)*mpp) and each of the four
\* periods of that block holds I*cos_carrier + Q*sin_carrier for the one
\* (I,Q) pair of the symbol.
C4_BloqueSuperpuesto ==
    SimboloEscrito =>
        \A k \in 1..(4 * mpp) :
            senal_Tx[i * mpp + k] =
                IQ[1] * PortadoraCos(mpp, redondeo)[((k - 1) % mpp) + 1]
                + IQ[2] * PortadoraSen(mpp, redondeo)[((k - 1) % mpp) + 1]

\* C5: with a length that is not a multiple of 4, modulador_16QAM fails
\* before any sample of the transmit waveform is written.
C5_RechazaLongitud ==
    Len(bits) % 4 # 0 => \A k \in 1..Len(senal_Tx) : senal_Tx[k] = 0

----------------------------------------------------------------------------
(* Claim on the bit-error evaluation, checked under SpecBER *)

\* C7: for two equal-length sequences over {0,1} the error count is the
\* number of positions where they differ, and BER = count / length lies in
\* [0,1]: identical sequences give count 0 and BER 0, complementary sequences
\* give count = length and BER 1.
C7_ConteoDeErrores ==
    pc = "evaluado" =>
        /\ errores = Cardinality({k \in 1..Len(bits) : bits[k] # bits_Rx[k]})
        /\ BER.num = errores /\ BER.den = Len(bits)
        /\ 0 <= BER.num /\ BER.num <= BER.den
        /\ bits = bits_Rx => (errores = 0 /\ BER.num = 0)
        /\ (\A k \in 1..Len(bits) : bits[k] = 1 - bits_Rx[k])
              => (errores = Len(bits) /\ BER.num = BER.den)

C7_Testigo ==
    /\ pc = "evaluado" /\ Len(bits) >= 2
    /\ \E j, k \in 1..Len(bits) :
          /\ bits[j] = 1 /\ bits_Rx[j] = 0
          /\ bits[k] = 0 /\ bits_Rx[k] = 1
    /\ errores >= 2

----------------------------------------------------------------------------
(* Claim on the image codec, checked under SpecCodec *)

\* 2^n
RECURSIVE Pot2(_)
Pot2(n) == IF n = 0 THEN 1 ELSE 2 * Pot2(n - 1)

\* C8: for a pixel array of shape (height, width, 3) with values in 0..255,
\* rgb_a_bit gives 8*height*width*3 bits, value k as bits 8k..8k+7 with the
\* most significant bit first, and bits_a_rgb gives back the same values at
\* the same positions.
C8_IdaYVueltaPixeles ==
    /\ pc \in {"codificado", "reconstruido"} =>
          /\ Len(bits) = 8 * dims[1] * dims[2] * dims[3]
          /\ \A k \in 1..Len(pixeles) : \A j \in 1..8 :
                bits[8 * (k - 1) + j] = (pixeles[k] \div Pot2(8 - j)) % 2
    /\ pc = "reconstruido" => pixeles_Rx = pixeles

C8_Testigo ==
    /\ pc = "reconstruido" /\ pixeles_Rx = pixeles
    /\ pixeles[1] = 127 /\ pixeles[2] = 128

----------------------------------------------------------------------------
(* Claim on the script, checked under SpecScript *)

\* C10: every name a step of the run or of a stage function reads is a
\* parameter or was bound earlier, so the run goes from modulation to the
\* bit-error report without an unbound-name failure.
C10_NombresLigados == err # "NameError"

----------------------------------------------------------------------------
(* Claim on the buffers handed between the BPSK stages, checked under SpecBPSK *)

\* C11: no stage changes an array it was handed: when modulador returns the
\* bit sequence is element for element what it was, when canal_ruidoso
\* returns so is the transmit waveform, and when demodulador returns so are
\* the received waveform and the carrier.
C11_SinMutacion ==
    [][ /\ (pc = "inicio" /\ pc' = "modulado") =>
              (Len(bits') = Len(bits) /\ \A k \in 1..Len(bits) : bits'[k] = bits[k])
        /\ (pc = "modulado" /\ pc' = "recibido") =>
              (Len(senal_Tx') = Len(senal_Tx)
               /\ \A k \in 1..Len(senal_Tx) : senal_Tx'[k] = senal_Tx[k])
        /\ (pc = "recibido" /\ pc' = "demodulado") =>
              (/\ Len(senal_Rx') = Len(senal_Rx)
               /\ \A k \in 1..Len(senal_Rx) : senal_Rx'[k] = senal_Rx[k]
               /\ Len(portadora') = Len(portadora)
               /\ \A k \in 1..Len(portadora) : portadora'[k] = portadora[k]) ]_vars

\* the three stages have returned, the channel having added noise
C11_Testigo ==
    /\ pc = "demodulado" /\ Len(bits) >= 2 /\ mpp >= 2
    /\ senal_Rx # senal_Tx
    /\ senal_demodulada # senal_Rx

=============================================================================
